---- MODULE Spec2Model ----
(***************************************************************************)
(* State-machine model of the CometAPI native realtime transport client    *)
(* (class CometAPIWebSocket): connection lifecycle, event router, capture  *)
(* pipeline and playback queue.  Every browser callback (open, message,    *)
(* error, close, onaudioprocess, onended) and every public method is one   *)
(* atomic action: JavaScript runs each of them to completion.              *)
(***************************************************************************)
EXTENDS Integers, Sequences, FiniteSets, TLC

(* ------------------------------ bounds --------------------------------- *)
MaxLinks == 2
MaxChunks == 3
MaxRegs == 3
MaxIds == 2
MaxBlocks == 1
\* codec inputs: byte sequences of up to MaxBytes bytes, samples k/Den with
\* k from -MaxNum to MaxNum
MaxBytes == 3
Den == 100
MaxNum == 150
\* connect() calls made on the session hook
MaxCalls == 2

(* --------------------------- input domains ----------------------------- *)
\* listener callbacks handed to on(); the ones in Throwing raise when invoked
Listeners == {"L1", "L2", "LT"}
Throwing == {"LT"}
Wildcard == "*"
AudioDelta == "response.audio.delta"
\* labels a consumer subscribes under
Labels == {"foo", "close", "error", Wildcard}
\* discriminants of well-formed inbound messages
InboundTypes == {"foo", "error", AudioDelta}
\* delta payloads: empty string, decodable base64, undecodable base64
Deltas == {"empty", "ok", "bad"}
\* close codes of a clean remote close; 1006 is the abnormal closure
CloseCodes == {1000, 1008}
AbnormalCode == 1006
\* event_id of an event handed to sendEvent: absent, "", or caller-chosen
NoId == "none"
CallerIds == {NoId, "", "u1"}
UuidPool == <<"g1", "g2", "g3", "g4", "g5", "g6">>
\* types of events a caller sends
OutboundTypes == {"foo"}
\* options.apiKey, the credential the client was constructed with
ApiKey == "sk-key"
\* byte values the codec is exercised on
ByteValues == {0, 1, 77, 128, 255}
ByteSeqs == UNION {[1..n -> ByteValues] : n \in 0..MaxBytes}
\* numerators of the samples the codec is exercised on (the sample is k/Den)
SampleNums == (-MaxNum)..MaxNum

VARIABLES
    socks,          \* the WebSocket objects created by connect(), in order
    ws,             \* this.ws: 0 (null) or an index into socks
    eventHandlers,  \* this.eventHandlers: label -> insertion-ordered set
    audioContext,   \* this.audioContext: "null" or "live"
    mediaStream,    \* this.mediaStream: "null" or "live"
    audioProcessor, \* this.audioProcessor: "null" or "live"
    audioQueue,     \* this.audioQueue: sequence of [id, ok]
    isPlaying,      \* this.isPlaying
    audioPacketCount, \* closure counter of the capture block handler
    playing,        \* chunks whose source was started and has not ended
    orphaned,       \* chunks whose source was cut off by closing its context
    begun,          \* history: chunk ids in the order their playback began
    lost,           \* history: chunk ids dropped by decode failure or cleanup
    nextChunk,      \* next chunk id to hand out (arrival order)
    nextUuid,       \* number of identifiers crypto.randomUUID() has produced
    last,           \* the handler or method that ran last, with its inputs
    trace,          \* the observable effects of that handler, in order
    wsRef,          \* hook: wsRef.current, 0 (null) or an index into clients
    status,         \* hook: the SessionStatus state
    calls,          \* hook: the connect() calls made, each with its position
    clients         \* hook: the CometAPIWebSocket objects the hook created

vars == <<socks, ws, eventHandlers, audioContext, mediaStream, audioProcessor,
          audioQueue, isPlaying, audioPacketCount, playing, orphaned, begun,
          lost, nextChunk, nextUuid, last, trace, wsRef, status, calls,
          clients>>

hookVars == <<wsRef, status, calls, clients>>

audioVars == <<audioContext, mediaStream, audioProcessor, audioQueue,
               isPlaying, playing, orphaned, begun, lost>>

(* ------------------------------ helpers -------------------------------- *)
Range(s) == {s[i] : i \in 1..Len(s)}

RECURSIVE SumLens(_, _)
SumLens(f, S) ==
    IF S = {} THEN 0
    ELSE LET l == CHOOSE x \in S : TRUE
         IN Len(f[l]) + SumLens(f, S \ {l})

\* one observable effect: kind, listener, event type, number, identifier
Eff(k, l, t, n, id) == [k |-> k, l |-> l, t |-> t, n |-> n, id |-> id]

Op(op, i, t, id) == [op |-> op, i |-> i, t |-> t, id |-> id]

\* settling a promise that is already settled has no effect
Settle(p, v) == IF p = "pending" THEN v ELSE p

\* a label without listeners and a label missing from the Map are one state:
\* Map.get() of a missing label and an empty Set both invoke nobody
EmptyRegistry == [l \in Labels |-> <<>>]

Init ==
    /\ socks = <<>>
    /\ ws = 0
    /\ eventHandlers = EmptyRegistry
    /\ \E preset \in {"null", "live"} :
          /\ audioContext = preset
          /\ mediaStream = preset
    /\ audioProcessor = "null"
    /\ audioQueue = <<>>
    /\ isPlaying = FALSE
    /\ audioPacketCount = 0
    /\ playing = {}
    /\ orphaned = {}
    /\ begun = <<>>
    /\ lost = {}
    /\ nextChunk = 1
    /\ nextUuid = 0
    /\ last = Op("new", 0, "", NoId)
    /\ trace = <<>>
    /\ wsRef = 0
    /\ status = "DISCONNECTED"
    /\ calls = <<>>
    /\ clients = <<>>

(* --------------------------- event router ------------------------------ *)
\* Map.get(label): the label's listeners in insertion order, none if absent
Handlers(reg, label) == IF label \in DOMAIN reg THEN reg[label] ELSE <<>>

SubscribeDuplicating(reg, label, h) == [reg EXCEPT ![label] = Append(@, h)]
\* on(): Map.set for a new label, Set.add keeps the position of a member
Subscribe(reg, label, h) ==
    IF h \in Range(reg[label]) THEN reg
    ELSE [reg EXCEPT ![label] = Append(@, h)]

UnsubscribeAll(reg, label, h) == [reg EXCEPT ![label] = <<>>]
\* off(): Set.delete on the label's set when the label exists
Unsubscribe(reg, label, h) ==
    [reg EXCEPT ![label] = SelectSeq(@, LAMBDA x : x # h)]

\* eventHandlers.clear()
Cleared(reg) == EmptyRegistry

Registrations(reg) == SumLens(reg, DOMAIN reg)

\* the order in which emit() reaches listeners: typed ones, then wildcard
DispatchOrder(reg, type) == Handlers(reg, type) \o Handlers(reg, Wildcard)

\* position of the first listener that raises, 0 when none does
FirstThrow(s) ==
    IF \E i \in 1..Len(s) : s[i] \in Throwing
    THEN CHOOSE i \in 1..Len(s) :
            /\ s[i] \in Throwing
            /\ \A j \in 1..(i - 1) : s[j] \notin Throwing
    ELSE 0

\* emit() has no try/catch: forEach stops at the first listener that raises
Invoked(reg, type) ==
    LET s == DispatchOrder(reg, type)
        k == FirstThrow(s)
    IN IF k = 0 THEN s ELSE SubSeq(s, 1, k)

EmitThrows(reg, type) == FirstThrow(DispatchOrder(reg, type)) # 0

\* the listener invocations of one emit(), in order
EmitCalls(reg, type, code) ==
    LET s == Invoked(reg, type)
    IN [i \in 1..Len(s) |-> Eff("call", s[i], type, code, "")]

\* one emit(event): the dispatch itself, then the listener invocations
EmitEffectsAudioSilenced(reg, type, code) ==
    IF type = AudioDelta THEN <<>>
    ELSE <<Eff("emit", "", type, code, "")>> \o EmitCalls(reg, type, code)
EmitEffects(reg, type, code) ==
    <<Eff("emit", "", type, code, "")>> \o EmitCalls(reg, type, code)

(* --------------------------- playback queue ---------------------------- *)
\* queueAudio: playback is kicked off only when nothing is playing
ShouldStartPlaybackAlways(flag) == TRUE
ShouldStartPlayback(flag) == ~flag

\* audioQueue.shift()
ShiftLast(q) == [head |-> q[Len(q)], rest |-> SubSeq(q, 1, Len(q) - 1)]
Shift(q) == [head |-> Head(q), rest |-> Tail(q)]

\* (a variant whose catch logs the failure and does not go on)
PlayNextStalls(q) ==
    IF Len(q) = 0
    THEN [q |-> q, isPlaying |-> FALSE, started |-> 0, failed |-> {}]
    ELSE IF Head(q).ok
    THEN [q |-> Tail(q), isPlaying |-> TRUE, started |-> Head(q).id,
          failed |-> {}]
    ELSE [q |-> Tail(q), isPlaying |-> TRUE, started |-> 0,
          failed |-> {Head(q).id}]

\* playNextAudioChunk: take chunks off the head until one starts playing; a
\* chunk that fails to decode is logged and the next one is tried
RECURSIVE PlayNext(_)
PlayNext(q) ==
    IF Len(q) = 0
    THEN [q |-> q, isPlaying |-> FALSE, started |-> 0, failed |-> {}]
    ELSE LET sh == Shift(q)
         IN IF sh.head.ok
            THEN [q |-> sh.rest, isPlaying |-> TRUE,
                  started |-> sh.head.id, failed |-> {}]
            ELSE LET r == PlayNext(sh.rest)
                 IN [r EXCEPT !.failed = @ \cup {sh.head.id}]

\* the state change of one playNextAudioChunk() call on queue q
\* (cur: the sources still sounding when it is called)
PlayNextStep(q, cur) ==
    LET r == PlayNext(q)
    IN /\ audioQueue' = r.q
       /\ isPlaying' = r.isPlaying
       /\ playing' = IF r.started = 0 THEN cur ELSE cur \cup {r.started}
       /\ begun' = IF r.started = 0 THEN begun ELSE Append(begun, r.started)
       /\ lost' = lost \cup r.failed
       /\ audioContext' = IF Len(q) = 0 THEN audioContext ELSE "live"

PlayEffects(q) ==
    LET r == PlayNext(q)
    IN IF r.started = 0 THEN <<>>
       ELSE <<Eff("play", "", "", r.started, "")>>

QueueAudioPushOnly(chunk) ==
    /\ audioQueue' = Append(audioQueue, chunk)
    /\ UNCHANGED <<isPlaying, playing, begun, lost, audioContext>>
\* queueAudio(base64Audio)
QueueAudio(chunk) ==
    LET q == Append(audioQueue, chunk)
    IN IF ShouldStartPlayback(isPlaying)
       THEN PlayNextStep(q, playing)
       ELSE /\ audioQueue' = q
            /\ UNCHANGED <<isPlaying, playing, begun, lost, audioContext>>

QueueAudioEffects(chunk) ==
    IF ShouldStartPlayback(isPlaying)
    THEN PlayEffects(Append(audioQueue, chunk))
    ELSE <<>>

(* --------------------------- capture / cleanup ------------------------- *)
\* stopAudioCapture(): disconnect the node, stop the tracks, close the
\* context.  Closing the context cuts off the sources playing on it: their
\* onended never fires.
StopAudioCaptureStep(q, flag) ==
    /\ audioProcessor' = "null"
    /\ mediaStream' = "null"
    /\ audioContext' = "null"
    /\ playing' = IF audioContext = "live" THEN {} ELSE playing
    /\ orphaned' = IF audioContext = "live" THEN orphaned \cup playing
                   ELSE orphaned
    /\ audioQueue' = q
    /\ isPlaying' = flag

CleanupStepKeepsQueue ==
    /\ StopAudioCaptureStep(audioQueue, FALSE)
    /\ eventHandlers' = Cleared(eventHandlers)
    /\ UNCHANGED <<begun, lost>>
\* cleanup(): stopAudioCapture, drop the queue, reset the flag, clear registry
CleanupStep ==
    /\ StopAudioCaptureStep(<<>>, FALSE)
    /\ lost' = lost \cup {audioQueue[i].id : i \in 1..Len(audioQueue)}
    /\ eventHandlers' = Cleared(eventHandlers)
    /\ UNCHANGED begun

CanStartCaptureAlways == TRUE
\* startAudioCaptureSync(): needs the pre-initialised context and stream
CanStartCapture == audioContext = "live" /\ mediaStream = "live"

(* ------------------------------ link ----------------------------------- *)
NewSocket == [rs |-> "CONNECTING", promise |-> "pending", est |-> FALSE,
              phase |-> "live"]
\* the WebSocket constructor threw: no socket, the promise is rejected
NoSocket == [rs |-> "NONE", promise |-> "rejected", est |-> FALSE,
             phase |-> "done"]

\* this.ws && this.ws.readyState === WebSocket.OPEN
WsIsOpen == ws # 0 /\ socks[ws].rs = "OPEN"

readyStateIdleWithoutLink == IF ws = 0 THEN "IDLE" ELSE socks[ws].rs
\* get readyState(): this.ws?.readyState ?? WebSocket.CLOSED
readyState == IF ws = 0 THEN "CLOSED" ELSE socks[ws].rs

\* get isConnected()
isConnected == WsIsOpen

\* sockets that are not yet closed and still deliver events to this client
LiveLinks == {i \in 1..Len(socks) : socks[i].rs \in {"CONNECTING", "OPEN"}}

(* ------------------------------ actions -------------------------------- *)
\* on(eventType, handler)
on(label, h) ==
    /\ Registrations(eventHandlers) < MaxRegs
    /\ eventHandlers' = Subscribe(eventHandlers, label, h)
    /\ last' = Op("on", 0, "", NoId)
    /\ UNCHANGED hookVars
    /\ trace' = <<Eff("on", "", "",
                      IF h \in Range(eventHandlers[label]) THEN 1 ELSE 0, "")>>
    /\ UNCHANGED <<socks, ws, audioVars, audioPacketCount, nextChunk,
                   nextUuid>>

\* off(eventType, handler)
off(label, h) ==
    /\ eventHandlers' = Unsubscribe(eventHandlers, label, h)
    /\ last' = Op("off", 0, "", NoId)
    /\ UNCHANGED hookVars
    /\ trace' = <<Eff("off", "", "",
                      IF h \in Range(eventHandlers[label]) THEN 1 ELSE 0, "")>>
    /\ UNCHANGED <<socks, ws, audioVars, audioPacketCount, nextChunk,
                   nextUuid>>

\* new WebSocket(wsUrl, ["realtime", "openai-insecure-api-key." + apiKey]):
\* the credential travels as the second subprotocol of the handshake
Handshake(i) ==
    <<Eff("newWebSocket", "", "", i, ""),
      Eff("subprotocol", "", "realtime", i, ""),
      Eff("subprotocol", "", "openai-insecure-api-key", i, ApiKey)>>

\* connect(): no guard on the current link; a new WebSocket replaces this.ws
connect ==
    /\ Len(socks) < MaxLinks
    /\ \E ctorOk \in BOOLEAN :
          IF ctorOk
          THEN /\ socks' = Append(socks, NewSocket)
               /\ ws' = Len(socks) + 1
               /\ trace' = Handshake(Len(socks) + 1)
          ELSE /\ socks' = Append(socks, NoSocket)
               /\ ws' = ws
               /\ trace' = <<Eff("reject", "", "", Len(socks) + 1, "")>>
    /\ last' = Op("connect", Len(socks) + 1, "", NoId)
    /\ UNCHANGED hookVars
    /\ UNCHANGED <<eventHandlers, audioVars, audioPacketCount, nextChunk,
                   nextUuid>>

\* what the "open" listener does, in order
OpenEffectsResolveFirst(i, started) ==
    <<Eff("resolve", "", "", i, ""),
      Eff("startAudioCaptureSync", "", "", started, "")>>
OpenEffects(i, started) ==
    <<Eff("startAudioCaptureSync", "", "", started, ""),
      Eff("resolve", "", "", i, "")>>

\* the "open" listener of socket i: start capture, then resolve
WsOpen(i) ==
    /\ socks[i].rs = "CONNECTING"
    /\ socks[i].phase = "live"
    /\ socks' = [socks EXCEPT ![i].rs = "OPEN", ![i].est = TRUE,
                              ![i].promise = Settle(@, "resolved")]
    /\ audioProcessor' = IF CanStartCapture THEN "live" ELSE audioProcessor
    /\ audioPacketCount' = IF CanStartCapture THEN 0 ELSE audioPacketCount
    /\ last' = Op("open", i, "", NoId)
    /\ UNCHANGED hookVars
    /\ trace' = OpenEffects(i, IF CanStartCapture THEN 1 ELSE 0)
    /\ UNCHANGED <<ws, eventHandlers, audioContext, mediaStream, audioQueue,
                   isPlaying, playing, orphaned, begun, lost, nextChunk,
                   nextUuid>>

\* the "open" listener of a socket on which close() was called while it was
\* CONNECTING, run by an open task that was queued before close(): the
\* listener looks at no state, it starts capture and resolves as always
WsOpenAfterClose(i) ==
    /\ socks[i].rs = "CLOSING"
    /\ socks[i].phase = "live"
    /\ ~socks[i].est
    /\ socks[i].promise = "pending"
    /\ socks' = [socks EXCEPT ![i].promise = Settle(@, "resolved")]
    /\ audioProcessor' = IF CanStartCapture THEN "live" ELSE audioProcessor
    /\ audioPacketCount' = IF CanStartCapture THEN 0 ELSE audioPacketCount
    /\ last' = Op("openAfterClose", i, "", NoId)
    /\ UNCHANGED hookVars
    /\ trace' = OpenEffects(i, IF CanStartCapture THEN 1 ELSE 0)
    /\ UNCHANGED <<ws, eventHandlers, audioContext, mediaStream, audioQueue,
                   isPlaying, playing, orphaned, begun, lost, nextChunk,
                   nextUuid>>

\* the catch of the "message" listener: two console.error calls
ParseFailureEffectsEmitsError(i) ==
    <<Eff("parseError", "", "", i, "")>>
    \o EmitEffects(eventHandlers, "error", 0)
ParseFailureEffects(i) == <<Eff("parseError", "", "", i, "")>>

\* the "message" listener of socket i on a payload that JSON.parse rejects
WsMessageMalformed(i) ==
    /\ socks[i].rs = "OPEN"
    /\ last' = Op("message", i, "", "malformed")
    /\ UNCHANGED hookVars
    /\ trace' = ParseFailureEffects(i)
    /\ UNCHANGED <<socks, ws, eventHandlers, audioVars, audioPacketCount,
                   nextChunk, nextUuid>>

\* handleServerEvent: event.type === "response.audio.delta" && event.delta
QueuesAudioAnyType(type, delta) == delta # "empty"
QueuesAudio(type, delta) == type = AudioDelta /\ delta # "empty"

\* the "message" listener of socket i on a parsed event: handleServerEvent
\* queues an audio delta, then emits; the listener's try/catch swallows
\* whatever handleServerEvent raises
WsMessage(i, type, delta) ==
    /\ socks[i].rs = "OPEN"
    /\ LET queues == QueuesAudio(type, delta)
           chunk == [id |-> nextChunk, ok |-> delta = "ok"]
       IN /\ queues => nextChunk <= MaxChunks
          /\ IF queues
             THEN /\ QueueAudio(chunk)
                  /\ nextChunk' = nextChunk + 1
             ELSE UNCHANGED <<audioQueue, isPlaying, playing, begun, lost,
                              audioContext, nextChunk>>
          /\ trace' = (IF queues THEN QueueAudioEffects(chunk) ELSE <<>>)
                      \o EmitEffects(eventHandlers, type, 0)
                      \o (IF EmitThrows(eventHandlers, type)
                          THEN <<Eff("caught", "", type, i, "")>>
                          ELSE <<>>)
    /\ last' = Op("message", i, type, delta)
    /\ UNCHANGED hookVars
    /\ UNCHANGED <<socks, ws, eventHandlers, mediaStream, audioProcessor,
                   orphaned, audioPacketCount, nextUuid>>

\* the "error" listener touches neither this.ws, the registry nor the audio
ErrorListenerFrameCleansUp == CleanupStep /\ UNCHANGED ws
ErrorListenerFrame == UNCHANGED <<ws, eventHandlers, audioVars>>

\* the browser fails the connection of socket i and fires "error": the
\* listener emits a synthetic error event, then rejects
WsError(i) ==
    /\ socks[i].phase = "live"
    /\ socks[i].rs \in {"CONNECTING", "OPEN", "CLOSING"}
    /\ LET threw == EmitThrows(eventHandlers, "error")
       IN /\ socks' = [socks EXCEPT
                         ![i].rs = "CLOSED", ![i].phase = "closeDue",
                         ![i].promise = IF threw THEN @
                                        ELSE Settle(@, "rejected")]
          /\ trace' = EmitEffects(eventHandlers, "error", 0)
                      \o (IF threw
                          THEN <<Eff("uncaught", "", "error", i, "")>>
                          ELSE <<Eff("reject", "", "", i, "")>>)
    /\ last' = Op("error", i, "error", NoId)
    /\ UNCHANGED hookVars
    /\ ErrorListenerFrame
    /\ UNCHANGED <<audioPacketCount, nextChunk, nextUuid>>

\* the "close" listener of socket i: cleanup, then emit the synthetic close
WsClose(i, code) ==
    /\ \/ socks[i].phase = "closeDue" /\ code = AbnormalCode
       \/ /\ socks[i].phase = "live"
          /\ socks[i].est
          /\ socks[i].rs \in {"OPEN", "CLOSING"}
          /\ code \in CloseCodes
    /\ socks' = [socks EXCEPT ![i].rs = "CLOSED", ![i].phase = "done"]
    /\ CleanupStep
    /\ last' = Op("close", i, "close", NoId)
    /\ UNCHANGED hookVars
    /\ trace' = <<Eff("cleanup", "", "", i, "")>>
                \o EmitEffects(Cleared(eventHandlers), "close", code)
                \o (IF EmitThrows(Cleared(eventHandlers), "close")
                    THEN <<Eff("uncaught", "", "close", i, "")>>
                    ELSE <<>>)
    /\ UNCHANGED <<ws, audioPacketCount, nextChunk, nextUuid>>

\* sendEvent's guard: this.ws && this.ws.readyState === WebSocket.OPEN
SendAllowedAnyState == ws # 0
SendAllowed == WsIsOpen

\* !event.event_id: an absent and an empty identifier are both falsy
NeedsIdAlways(id) == TRUE
NeedsId(id) == id \in {NoId, ""}

\* sendEvent(event)
sendEvent(type, id) ==
    /\ last' = Op("sendEvent", ws, type, id)
    /\ UNCHANGED hookVars
    /\ IF ~SendAllowed
       THEN /\ trace' = <<Eff("logInfo", "", type, ws, id)>>
            /\ UNCHANGED nextUuid
       ELSE IF NeedsId(id)
       THEN /\ nextUuid < MaxIds
            /\ nextUuid' = nextUuid + 1
            /\ trace' = <<Eff("send", "", type, ws, UuidPool[nextUuid + 1])>>
       ELSE /\ trace' = <<Eff("send", "", type, ws, id)>>
            /\ UNCHANGED nextUuid
    /\ UNCHANGED <<socks, ws, eventHandlers, audioVars, audioPacketCount,
                   nextChunk>>

CloseLinkStepForgetsOnly ==
    /\ socks' = socks
    /\ ws' = 0
\* if (this.ws) { this.ws.close(); this.ws = null; }: WebSocket.close() moves
\* a CONNECTING or OPEN socket to CLOSING and does nothing to another one
CloseLinkStep ==
    /\ socks' = IF ws # 0 /\ socks[ws].rs \in {"CONNECTING", "OPEN"}
                THEN [socks EXCEPT ![ws].rs = "CLOSING"]
                ELSE socks
    /\ ws' = 0

\* close(): cleanup, then close and forget the link
close ==
    /\ CleanupStep
    /\ CloseLinkStep
    /\ last' = Op("closeCall", ws, "", NoId)
    /\ UNCHANGED hookVars
    /\ trace' = <<Eff("cleanup", "", "", ws, "")>>
                \o (IF ws # 0 THEN <<Eff("wsClose", "", "", ws, "")>>
                    ELSE <<>>)
    /\ UNCHANGED <<audioPacketCount, nextChunk, nextUuid>>

StopEffectsUnguarded ==
    <<Eff("disconnect", "", "", 0, ""), Eff("stopTracks", "", "", 0, ""),
      Eff("closeContext", "", "", 0, "")>>
\* what stopAudioCapture() releases: each of the three only when it is held
StopEffects ==
    (IF audioProcessor # "null" THEN <<Eff("disconnect", "", "", 0, "")>>
     ELSE <<>>)
    \o (IF mediaStream # "null" THEN <<Eff("stopTracks", "", "", 0, "")>>
        ELSE <<>>)
    \o (IF audioContext # "null" THEN <<Eff("closeContext", "", "", 0, "")>>
        ELSE <<>>)

\* stopAudioCapture() called by the consumer
stopAudioCapture ==
    /\ StopAudioCaptureStep(audioQueue, isPlaying)
    /\ last' = Op("stopAudioCapture", 0, "", NoId)
    /\ UNCHANGED hookVars
    /\ trace' = StopEffects
    /\ UNCHANGED <<socks, ws, eventHandlers, begun, lost, audioPacketCount,
                   nextChunk, nextUuid>>

\* onaudioprocess's guard: this.ws && this.ws.readyState === WebSocket.OPEN
CaptureSendAllowedAnyState == ws # 0
CaptureSendAllowed == WsIsOpen

CaptureEventWithKey(w) ==
    Eff("send", "", "input_audio_buffer.append", w, ApiKey)
\* this.ws.send(JSON.stringify({type: "input_audio_buffer.append", audio})):
\* the capture path does not go through sendEvent and sets no event_id
CaptureEvent(w) == Eff("send", "", "input_audio_buffer.append", w, NoId)

\* processor.onaudioprocess: one captured block
AudioProcess ==
    /\ audioProcessor = "live"
    /\ audioPacketCount < MaxBlocks
    /\ audioPacketCount' = audioPacketCount + 1
    /\ last' = Op("audioprocess", ws, "", NoId)
    /\ UNCHANGED hookVars
    /\ trace' = IF CaptureSendAllowed
                THEN <<CaptureEvent(ws)>>
                ELSE <<Eff("skip", "", "", ws, "")>>
    /\ UNCHANGED <<socks, ws, eventHandlers, audioVars, nextChunk, nextUuid>>

\* source.onended of chunk c: play the next chunk
SourceEnded(c) ==
    /\ c \in playing
    /\ PlayNextStep(audioQueue, playing \ {c})
    /\ last' = Op("ended", c, "", NoId)
    /\ UNCHANGED hookVars
    /\ trace' = PlayEffects(audioQueue)
    /\ UNCHANGED <<socks, ws, eventHandlers, mediaStream, audioProcessor,
                   orphaned, audioPacketCount, nextChunk, nextUuid>>

(* ------------------------------- codec --------------------------------- *)
B64Alphabet ==
    <<"A", "B", "C", "D", "E", "F", "G", "H", "I", "J", "K", "L", "M",
      "N", "O", "P", "Q", "R", "S", "T", "U", "V", "W", "X", "Y", "Z",
      "a", "b", "c", "d", "e", "f", "g", "h", "i", "j", "k", "l", "m",
      "n", "o", "p", "q", "r", "s", "t", "u", "v", "w", "x", "y", "z",
      "0", "1", "2", "3", "4", "5", "6", "7", "8", "9", "+", "/">>
B64Pad == "="

B64Char(k) == B64Alphabet[k + 1]
B64Sextet(c) == CHOOSE k \in 0..63 : B64Alphabet[k + 1] = c

\* btoa(binary): three code units make four characters, a rest of one or
\* two code units is padded
RECURSIVE Btoa(_)
Btoa(b) ==
    IF Len(b) = 0 THEN <<>>
    ELSE IF Len(b) = 1
    THEN <<B64Char(b[1] \div 4), B64Char((b[1] % 4) * 16), B64Pad, B64Pad>>
    ELSE IF Len(b) = 2
    THEN <<B64Char(b[1] \div 4),
           B64Char((b[1] % 4) * 16 + b[2] \div 16),
           B64Char((b[2] % 16) * 4), B64Pad>>
    ELSE <<B64Char(b[1] \div 4),
           B64Char((b[1] % 4) * 16 + b[2] \div 16),
           B64Char((b[2] % 16) * 4 + b[3] \div 64),
           B64Char(b[3] % 64)>>
         \o Btoa(SubSeq(b, 4, Len(b)))

\* atob drops one or two trailing pad characters of a text whose length is a
\* multiple of four
StripPad(t) ==
    IF Len(t) > 0 /\ Len(t) % 4 = 0 /\ t[Len(t)] = B64Pad
    THEN IF t[Len(t) - 1] = B64Pad
         THEN SubSeq(t, 1, Len(t) - 2)
         ELSE SubSeq(t, 1, Len(t) - 1)
    ELSE t

\* the code units of the data characters d; a single left-over character is
\* an InvalidCharacterError (marked -1)
RECURSIVE AtobData(_)
AtobData(d) ==
    IF Len(d) = 0 THEN <<>>
    ELSE IF Len(d) = 1 THEN <<-1>>
    ELSE LET a == B64Sextet(d[1])
             b == B64Sextet(d[2])
         IN IF Len(d) = 2 THEN <<a * 4 + b \div 16>>
            ELSE LET c == B64Sextet(d[3])
                 IN IF Len(d) = 3
                    THEN <<a * 4 + b \div 16, (b % 16) * 16 + c \div 4>>
                    ELSE <<a * 4 + b \div 16, (b % 16) * 16 + c \div 4,
                           (c % 4) * 64 + B64Sextet(d[4])>>
                         \o AtobData(SubSeq(d, 5, Len(d)))

Atob(t) == AtobData(StripPad(t))

FromCharCode7Bit(n) == n % 128
\* String.fromCharCode(n): the code unit n modulo 2^16
FromCharCode(n) == n % 65536

\* arrayBufferToBase64(buffer): bytes to a binary string, then btoa
arrayBufferToBase64(bytes) ==
    Btoa([i \in 1..Len(bytes) |-> FromCharCode(bytes[i])])

\* base64ToArrayBuffer(base64): atob, then each code unit stored in a
\* Uint8Array
base64ToArrayBuffer(text) ==
    LET bin == Atob(text)
    IN [i \in 1..Len(bin) |-> bin[i] % 256]

Scale8000 == 32768
Scale7fff == 32767

ClampNone(k) == k
\* Math.max(-1, Math.min(1, x)) on the sample k/Den
Clamp(k) == IF k > Den THEN Den ELSE IF k < -Den THEN -Den ELSE k

\* s < 0 ? s * 0x8000 : s * 0x7fff, as the numerator over Den
ScaleNum(k) == IF k < 0 THEN k * Scale8000 ELSE k * Scale7fff

\* storing a number in an Int16Array: truncate toward zero, keep 16 bits
TruncDiv(a, d) == IF a >= 0 THEN a \div d ELSE -((-a) \div d)
ToInt16Bits(v) == v % 65536

\* convertFloat32ToPCM16 on one sample: the 16 bits stored for k/Den
convertFloat32ToPCM16(k) ==
    ToInt16Bits(TruncDiv(ScaleNum(Clamp(k)), Den))

AsUint16(u) == u
\* new Int16Array(arrayBuffer): the 16 bits read as a signed value
AsInt16(u) == IF u >= 32768 THEN u - 65536 ELSE u

\* pcm16[i] / (pcm16[i] < 0 ? 0x8000 : 0x7fff), as a fraction
Pcm16ToFloat32(u) ==
    LET v == AsInt16(u)
    IN [num |-> v, den |-> IF v < 0 THEN Scale8000 ELSE Scale7fff]

clientVars == <<socks, ws, eventHandlers, audioVars, audioPacketCount,
                nextChunk, nextUuid>>

\* arrayBufferToBase64 applied to the bytes b
EncodeBytes(b) ==
    /\ last' = [op |-> "arrayBufferToBase64", arg |-> b]
    /\ trace' = <<[k |-> "text", v |-> arrayBufferToBase64(b)]>>
    /\ UNCHANGED clientVars
    /\ UNCHANGED hookVars

\* base64ToArrayBuffer applied to the text just produced
DecodeText ==
    /\ last.op = "arrayBufferToBase64"
    /\ last' = [op |-> "base64ToArrayBuffer", arg |-> trace[1].v,
                from |-> last.arg]
    /\ trace' = <<[k |-> "bytes", v |-> base64ToArrayBuffer(trace[1].v)]>>
    /\ UNCHANGED clientVars
    /\ UNCHANGED hookVars

\* convertFloat32ToPCM16 applied to the sample k/Den
EncodeSample(k) ==
    /\ last' = [op |-> "convertFloat32ToPCM16", arg |-> k]
    /\ trace' = <<[k |-> "pcm16", v |-> convertFloat32ToPCM16(k)]>>
    /\ UNCHANGED clientVars
    /\ UNCHANGED hookVars

\* the playback conversion applied to the 16 bits just produced
DecodeSample ==
    /\ last.op = "convertFloat32ToPCM16"
    /\ last' = [op |-> "pcm16ToFloat32", arg |-> trace[1].v,
                from |-> last.arg]
    /\ trace' = <<[k |-> "float", v |-> Pcm16ToFloat32(trace[1].v)]>>
    /\ UNCHANGED clientVars
    /\ UNCHANGED hookVars

(* --------------------------- session hook ------------------------------ *)
\* useRealtimeSession: every transport client the hook creates is kept as a
\* record of what the hook can see or cause of it: the state of its link, the
\* promise of its connect(), whether the hook's wildcard listener is still in
\* its registry, and the microphone stream pre-set on it.
SessionCreated == "session.created"
HookInbound == {SessionCreated, "foo"}

NewClient == [rs |-> "CONNECTING", promise |-> "pending", listening |-> TRUE,
              mic |-> "live", phase |-> "live"]

\* CometAPIWebSocket.cleanup() of a client: the pre-set stream is stopped and
\* the registry, the hook's listener with it, is cleared
ClientCleanup(cl) == [cl EXCEPT !.listening = FALSE, !.mic = "stopped"]

\* CometAPIWebSocket.close() of a client: cleanup, then ws.close()
ClientClosed(cl) ==
    [ClientCleanup(cl) EXCEPT
        !.rs = IF cl.rs \in {"CONNECTING", "OPEN"} THEN "CLOSING" ELSE cl.rs]

\* CometAPIWebSocket.sendEvent(event) of client c: sent only on an OPEN link
ClientSend(c, type) ==
    IF clients[c].rs = "OPEN"
    THEN Eff("send", "", type, c, "generated")
    ELSE Eff("logInfo", "", type, c, "")

\* the connect() calls that have not finished
InProgress ==
    {k \in 1..Len(calls) : calls[k].pc \in {"key", "mic", "handshake"}}
\* the connect() call suspended in await ws.connect() of client c
Awaiting(c) ==
    {k \in 1..Len(calls) : calls[k].pc = "handshake" /\ calls[k].client = c}

\* the catch of connect(): DISCONNECTED, forget the reference, rethrow
ConnectCatch(k) ==
    /\ status' = "DISCONNECTED"
    /\ wsRef' = 0
    /\ calls' = [calls EXCEPT ![k].pc = "failed"]

\* connect(): returns at once when wsRef.current is set, else goes to
\* CONNECTING and awaits the credential
SessionConnect ==
    /\ IF wsRef # 0
       THEN /\ trace' = <<Eff("return", "", "", wsRef, "")>>
            /\ UNCHANGED hookVars
       ELSE /\ Len(calls) < MaxCalls
            /\ status' = "CONNECTING"
            /\ calls' = Append(calls, [pc |-> "key", client |-> 0,
                                       cut |-> FALSE])
            /\ trace' = <<Eff("getEphemeralKey", "", "", Len(calls) + 1, "")>>
            /\ UNCHANGED <<wsRef, clients>>
    /\ last' = [op |-> "sessionConnect", i |-> wsRef, t |-> "", id |-> NoId]
    /\ UNCHANGED clientVars

\* getEphemeralKey() settles for call k: on success the call makes the audio
\* context and awaits getUserMedia
KeyFetched(k, ok) ==
    /\ calls[k].pc = "key"
    /\ IF ok
       THEN /\ calls' = [calls EXCEPT ![k].pc = "mic"]
            /\ trace' = <<Eff("getUserMedia", "", "", k, "")>>
            /\ UNCHANGED <<wsRef, status, clients>>
       ELSE /\ ConnectCatch(k)
            /\ trace' = <<Eff("throw", "", "", k, "")>>
            /\ UNCHANGED clients
    /\ last' = [op |-> "keyFetched", i |-> k, t |-> "", id |-> NoId]
    /\ UNCHANGED clientVars

\* getUserMedia() settles for call k: on success the call creates a client,
\* pre-sets context and stream, subscribes under "*" and awaits ws.connect()
MicAnswered(k, ok) ==
    /\ calls[k].pc = "mic"
    /\ IF ok
       THEN /\ clients' = Append(clients, NewClient)
            /\ calls' = [calls EXCEPT ![k].pc = "handshake",
                                      ![k].client = Len(clients) + 1]
            /\ trace' = <<Eff("newClient", "", "", Len(clients) + 1, ""),
                          Eff("on", "", Wildcard, Len(clients) + 1, ""),
                          Eff("newWebSocket", "", "", Len(clients) + 1, "")>>
            /\ UNCHANGED <<wsRef, status>>
       ELSE /\ ConnectCatch(k)
            /\ trace' = <<Eff("throw", "", "", k, "")>>
            /\ UNCHANGED clients
    /\ last' = [op |-> "micAnswered", i |-> k, t |-> "", id |-> NoId]
    /\ UNCHANGED clientVars

\* the link of client c opens: its connect() resolves and the call awaiting
\* it stores the client and goes to CONNECTED
ClientOpen(c) ==
    /\ clients[c].rs = "CONNECTING"
    /\ clients[c].phase = "live"
    /\ clients' = [clients EXCEPT ![c].rs = "OPEN",
                                  ![c].promise = Settle(@, "resolved")]
    /\ IF Awaiting(c) # {}
       THEN /\ wsRef' = c
            /\ status' = "CONNECTED"
            /\ calls' = [k \in 1..Len(calls) |->
                            IF k \in Awaiting(c)
                            THEN [calls[k] EXCEPT !.pc = "done"]
                            ELSE calls[k]]
       ELSE UNCHANGED <<wsRef, status, calls>>
    /\ trace' = <<Eff("resolve", "", "", c, "")>>
    /\ last' = [op |-> "clientOpen", i |-> c, t |-> "", id |-> NoId]
    /\ UNCHANGED clientVars

\* the link of client c fails: the client emits "error" (the hook logs it)
\* and rejects; a call still awaiting the client runs its catch
ClientError(c) ==
    /\ clients[c].phase = "live"
    /\ clients[c].rs \in {"CONNECTING", "OPEN", "CLOSING"}
    /\ clients' = [clients EXCEPT ![c].rs = "CLOSED",
                                  ![c].phase = "closeDue",
                                  ![c].promise = Settle(@, "rejected")]
    /\ IF clients[c].promise = "pending" /\ Awaiting(c) # {}
       THEN /\ status' = "DISCONNECTED"
            /\ wsRef' = 0
            /\ calls' = [k \in 1..Len(calls) |->
                            IF k \in Awaiting(c)
                            THEN [calls[k] EXCEPT !.pc = "failed"]
                            ELSE calls[k]]
       ELSE UNCHANGED <<wsRef, status, calls>>
    /\ trace' = (IF clients[c].listening
                 THEN <<Eff("call", "handleServerEvent", "error", c, "")>>
                 ELSE <<>>)
                \o <<Eff("reject", "", "", c, "")>>
    /\ last' = [op |-> "clientError", i |-> c, t |-> "error", id |-> NoId]
    /\ UNCHANGED clientVars

\* the close listener of client c: cleanup, then emit "close"; the hook's
\* handleServerEvent goes to DISCONNECTED if it is still in the registry
ClientClose(c) ==
    /\ \/ clients[c].phase = "closeDue"
       \/ /\ clients[c].phase = "live"
          /\ clients[c].promise = "resolved"
          /\ clients[c].rs \in {"OPEN", "CLOSING"}
    /\ LET cleaned == ClientCleanup(clients[c])
       IN /\ clients' = [clients EXCEPT
                            ![c] = [cleaned EXCEPT !.rs = "CLOSED",
                                                   !.phase = "done"]]
          /\ status' = IF cleaned.listening THEN "DISCONNECTED" ELSE status
          /\ trace' = <<Eff("cleanup", "", "", c, ""),
                        Eff("emit", "", "close", c, "")>>
                      \o (IF cleaned.listening
                          THEN <<Eff("call", "handleServerEvent", "close",
                                     c, "")>>
                          ELSE <<>>)
    /\ last' = [op |-> "clientClose", i |-> c, t |-> "close", id |-> NoId]
    /\ UNCHANGED <<wsRef, calls>>
    /\ UNCHANGED clientVars

\* a message of type t arrives on the OPEN link of client c and reaches the
\* hook's handleServerEvent: session.created is answered with session.update
\* through wsRef.current, when that is set
ClientMessage(c, t) ==
    /\ clients[c].rs = "OPEN"
    /\ clients[c].listening
    /\ trace' = <<Eff("call", "handleServerEvent", t, c, "")>>
                \o (IF t = SessionCreated /\ wsRef # 0
                    THEN <<ClientSend(wsRef, "session.update")>>
                    ELSE <<>>)
    /\ last' = [op |-> "clientMessage", i |-> c, t |-> t, id |-> NoId]
    /\ UNCHANGED hookVars
    /\ UNCHANGED clientVars

\* disconnect(): close and forget the stored client, go to DISCONNECTED
SessionDisconnect ==
    /\ IF wsRef # 0
       THEN clients' = [clients EXCEPT ![wsRef] = ClientClosed(@)]
       ELSE UNCHANGED clients
    /\ wsRef' = 0
    /\ status' = "DISCONNECTED"
    /\ calls' = [k \in 1..Len(calls) |->
                    IF k \in InProgress THEN [calls[k] EXCEPT !.cut = TRUE]
                    ELSE calls[k]]
    /\ trace' = IF wsRef # 0 THEN <<Eff("close", "", "", wsRef, "")>>
                ELSE <<>>
    /\ last' = [op |-> "sessionDisconnect", i |-> wsRef, t |-> "",
                id |-> NoId]
    /\ UNCHANGED clientVars

assertConnectedRefOnly == wsRef # 0
\* assertConnected passes: wsRef.current && wsRef.current.isConnected
assertConnected == wsRef # 0 /\ clients[wsRef].rs = "OPEN"

\* sendUserText(text)
sendUserText ==
    /\ trace' = IF ~assertConnected
                THEN <<Eff("throw", "", "RealtimeSession not connected",
                           wsRef, "")>>
                ELSE <<ClientSend(wsRef, "conversation.item.create"),
                       ClientSend(wsRef, "response.create")>>
    /\ last' = [op |-> "sendUserText", i |-> wsRef, t |-> "", id |-> NoId]
    /\ UNCHANGED hookVars
    /\ UNCHANGED clientVars

Next ==
    \/ \E l \in Labels, h \in Listeners : on(l, h)
    \/ \E l \in Labels, h \in Listeners : off(l, h)
    \/ connect
    \/ \E i \in 1..Len(socks) : WsOpen(i)
    \/ \E i \in 1..Len(socks) : WsOpenAfterClose(i)
    \/ \E i \in 1..Len(socks) : WsMessageMalformed(i)
    \/ \E i \in 1..Len(socks), t \in InboundTypes, d \in Deltas :
          WsMessage(i, t, d)
    \/ \E i \in 1..Len(socks) : WsError(i)
    \/ \E i \in 1..Len(socks), c \in CloseCodes \cup {AbnormalCode} :
          WsClose(i, c)
    \/ \E t \in OutboundTypes, id \in CallerIds : sendEvent(t, id)
    \/ close
    \/ stopAudioCapture
    \/ AudioProcess
    \/ \E c \in 1..MaxChunks : SourceEnded(c)
    \/ \E b \in ByteSeqs : EncodeBytes(b)
    \/ DecodeText
    \/ \E k \in SampleNums : EncodeSample(k)
    \/ DecodeSample

    \/ \E i \in 1..Len(socks) : WsMessage(i, Wildcard, "empty")
    \/ SessionConnect
    \/ \E k \in 1..Len(calls), ok \in BOOLEAN : KeyFetched(k, ok)
    \/ \E k \in 1..Len(calls), ok \in BOOLEAN : MicAnswered(k, ok)
    \/ \E c \in 1..Len(clients) : ClientOpen(c)
    \/ \E c \in 1..Len(clients) : ClientError(c)
    \/ \E c \in 1..Len(clients) : ClientClose(c)
    \/ \E c \in 1..Len(clients), t \in HookInbound : ClientMessage(c, t)
    \/ SessionDisconnect
    \/ sendUserText

Spec == Init /\ [][Next]_vars

\* The connection manager and send path of a client nobody subscribed to:
\* the consumer connects (again and again), sends and closes; the peer sends
\* events that carry no audio.
NextLink ==
    \/ connect
    \/ \E i \in 1..Len(socks) : WsOpen(i)
    \/ \E i \in 1..Len(socks) : WsOpenAfterClose(i)
    \/ \E i \in 1..Len(socks) : WsMessageMalformed(i)
    \/ \E i \in 1..Len(socks), t \in InboundTypes \ {AudioDelta} :
          WsMessage(i, t, "empty")
    \/ \E i \in 1..Len(socks) : WsError(i)
    \/ \E i \in 1..Len(socks), c \in CloseCodes \cup {AbnormalCode} :
          WsClose(i, c)
    \/ \E t \in OutboundTypes, id \in CallerIds : sendEvent(t, id)
    \/ AudioProcess
    \/ close

SpecLink == Init /\ [][NextLink]_vars

\* The event router over one connect cycle: the consumer subscribes and
\* unsubscribes listeners, connects once and closes; the peer sends events
\* that carry no audio, fails or closes the link.
NextRouter ==
    \/ \E l \in Labels, h \in Listeners : on(l, h)
    \/ \E l \in Labels, h \in Listeners : off(l, h)
    \/ Len(socks) = 0 /\ connect
    \/ \E i \in 1..Len(socks) : WsOpen(i)
    \/ \E i \in 1..Len(socks), t \in InboundTypes \ {AudioDelta} :
          WsMessage(i, t, "empty")
    \/ \E i \in 1..Len(socks) : WsMessage(i, Wildcard, "empty")
    \/ \E i \in 1..Len(socks) : WsError(i)
    \/ \E i \in 1..Len(socks), c \in CloseCodes \cup {AbnormalCode} :
          WsClose(i, c)
    \/ close

SpecRouter == Init /\ [][NextRouter]_vars

\* One whole session: the consumer subscribes listeners, connects once and
\* closes; the peer sends events with and without audio and payloads that
\* do not parse, playback completes, the link fails or is closed.
NextSession ==
    \/ \E l \in {"close", "error", Wildcard}, h \in {"L1", "LT"} : on(l, h)
    \/ Len(socks) = 0 /\ connect
    \/ \E i \in 1..Len(socks) : WsOpen(i)
    \/ \E i \in 1..Len(socks) : WsMessageMalformed(i)
    \/ \E i \in 1..Len(socks), t \in InboundTypes, d \in Deltas :
          WsMessage(i, t, d)
    \/ \E i \in 1..Len(socks) : WsError(i)
    \/ \E i \in 1..Len(socks), c \in CloseCodes \cup {AbnormalCode} :
          WsClose(i, c)
    \/ close
    \/ \E c \in 1..MaxChunks : SourceEnded(c)

SpecSession == Init /\ [][NextSession]_vars

\* The playback path: the peer streams audio deltas over the links of a
\* client nobody subscribed to, playback completes, the consumer stops
\* capture and closes.
NextAudio ==
    \/ connect
    \/ \E i \in 1..Len(socks) : WsOpen(i)
    \/ \E i \in 1..Len(socks), d \in Deltas : WsMessage(i, AudioDelta, d)
    \/ \E i \in 1..Len(socks) : WsError(i)
    \/ \E i \in 1..Len(socks), c \in CloseCodes \cup {AbnormalCode} :
          WsClose(i, c)
    \/ close
    \/ stopAudioCapture
    \/ \E c \in 1..MaxChunks : SourceEnded(c)

SpecAudio == Init /\ [][NextAudio]_vars

\* The codec: the two conversions between bytes and wire text and the two
\* conversions between samples and PCM16, each applied to an input and then
\* undone.
NextCodec ==
    \/ \E b \in ByteSeqs : EncodeBytes(b)
    \/ DecodeText
    \/ \E k \in SampleNums : EncodeSample(k)
    \/ DecodeSample

SpecCodec == Init /\ [][NextCodec]_vars

\* Playback on one link with nothing tearing the client down: the peer
\* streams audio deltas, the consumer may stop capture, and a source that is
\* sounding on a live context does end (the browser fires onended).
NextPlayback ==
    \/ Len(socks) = 0 /\ connect
    \/ \E i \in 1..Len(socks) : WsOpen(i)
    \/ \E i \in 1..Len(socks), d \in Deltas : WsMessage(i, AudioDelta, d)
    \/ stopAudioCapture
    \/ \E c \in 1..MaxChunks : SourceEnded(c)

SpecPlayback ==
    /\ Init
    /\ [][NextPlayback]_vars
    /\ \A c \in 1..MaxChunks : WF_vars(SourceEnded(c))

\* The session hook: the consumer calls connect, disconnect and
\* sendUserText in any order, the credential fetch and the microphone
\* request settle, links open, fail and close, the peer sends events.
NextHook ==
    \/ SessionConnect
    \/ \E k \in 1..Len(calls), ok \in BOOLEAN : KeyFetched(k, ok)
    \/ \E k \in 1..Len(calls), ok \in BOOLEAN : MicAnswered(k, ok)
    \/ \E c \in 1..Len(clients) : ClientOpen(c)
    \/ \E c \in 1..Len(clients) : ClientError(c)
    \/ \E c \in 1..Len(clients) : ClientClose(c)
    \/ \E c \in 1..Len(clients), t \in HookInbound : ClientMessage(c, t)
    \/ SessionDisconnect
    \/ sendUserText

SpecHook == Init /\ [][NextHook]_vars

TypeOK ==
    /\ ws \in 0..Len(socks)
    /\ isPlaying \in BOOLEAN
    /\ Cardinality(playing) <= MaxChunks

(* ------------------------- claim formulas ------------------------------ *)
\* the listeners an effect sequence invoked with an event of type t, in order
CallsOf(tr, t) ==
    LET c == SelectSeq(tr, LAMBDA e : e.k = "call" /\ e.t = t)
    IN [k \in 1..Len(c) |-> c[k].l]

Sends(tr) == SelectSeq(tr, LAMBDA e : e.k = "send")

Pos(tr, kind) ==
    IF \E k \in 1..Len(tr) : tr[k].k = kind
    THEN CHOOSE k \in 1..Len(tr) : tr[k].k = kind
    ELSE 0

IssuedIds == {UuidPool[k] : k \in 1..nextUuid}

\* C1: at every moment at most one link of the client is CONNECTING or OPEN
\* (a connect() on a client whose link is CONNECTING or OPEN opens no second
\* link).
C1_AtMostOneLiveLink == Cardinality(LiveLinks) <= 1

\* C2: when the peer closes an OPEN link with code c, every listener that was
\* subscribed under "close" or under the wildcard before the close is invoked
\* with a close event carrying c.
C2_RemoteCloseReachesSubscribers ==
    [][\A i \in 1..Len(socks), c \in CloseCodes :
          (WsClose(i, c) /\ socks[i].rs = "OPEN")
          => \A h \in Range(DispatchOrder(eventHandlers, "close")) :
                \E k \in 1..Len(trace') :
                   /\ trace'[k].k = "call"
                   /\ trace'[k].l = h
                   /\ trace'[k].t = "close"
                   /\ trace'[k].n = c]_vars

\* C3: during the dispatch of one inbound event every listener registered
\* under the event's type or under the wildcard is invoked, also when one of
\* them raises, and nothing is raised out of the dispatch.
C3_ListenerIsolation ==
    [][\A i \in 1..Len(socks), t \in InboundTypes, d \in Deltas :
          WsMessage(i, t, d)
          => /\ Range(DispatchOrder(eventHandlers, t))
                   \subseteq Range(CallsOf(trace', t))
             /\ Pos(trace', "caught") = 0]_vars

\* C4: playback begins in enqueue order: the chunks begun followed by the
\* chunks still queued are in increasing arrival order, and every chunk that
\* arrived is begun, queued, or was dropped by a decode failure or a cleanup;
\* with no failure and no cleanup the begun chunks are exactly the first
\* arrivals, none skipped or repeated.
C4_FifoPlayback ==
    LET all == begun \o [k \in 1..Len(audioQueue) |-> audioQueue[k].id]
    IN /\ \A a, b \in 1..Len(all) : a < b => all[a] < all[b]
       /\ Range(all) \cup lost = 1..(nextChunk - 1)
       /\ Range(all) \cap lost = {}

C4_Witness ==
    /\ begun = <<1, 2, 3>>
    /\ lost = {}

C6_SendWhileNotOpenIsNoOp ==
    [][\A t \in OutboundTypes, id \in CallerIds :
          (sendEvent(t, id) /\ ~WsIsOpen)
          => /\ Sends(trace') = <<>>
             /\ Pos(trace', "uncaught") = 0
             /\ UNCHANGED <<socks, ws, eventHandlers, audioVars,
                            nextUuid>>]_vars

\* sendEvent was just called on a client whose link had been closed
C6_Witness ==
    /\ last.op = "sendEvent"
    /\ ws # 0
    /\ socks[ws].rs = "CLOSED"
    /\ Sends(trace) = <<>>

\* C7 as stated: sendEvent while OPEN transmits the event once, with its own
\* event_id if it had one (the empty string included) and with a freshly
\* generated one if it had none.
C7_IdKeptWheneverPresent ==
    [][\A t \in OutboundTypes, id \in CallerIds :
          (sendEvent(t, id) /\ WsIsOpen)
          => /\ Len(Sends(trace')) = 1
             /\ IF id = NoId
                THEN Sends(trace')[1].id \notin IssuedIds \cup CallerIds
                ELSE Sends(trace')[1].id = id]_vars

\* C7 (amended): sendEvent while OPEN transmits the event once; a non-empty
\* event_id is transmitted unchanged, an absent or empty event_id is replaced
\* by an identifier never generated before.
C7_IdKeptWhenNonEmpty ==
    [][\A t \in OutboundTypes, id \in CallerIds :
          (sendEvent(t, id) /\ WsIsOpen)
          => /\ Len(Sends(trace')) = 1
             /\ Sends(trace')[1].t = t
             /\ Sends(trace')[1].n = ws
             /\ IF id \in {NoId, ""}
                THEN Sends(trace')[1].id \notin IssuedIds \cup CallerIds
                ELSE Sends(trace')[1].id = id]_vars

\* an event with a caller-chosen identifier went out after one that got a
\* generated identifier
C7_Witness ==
    /\ last.op = "sendEvent"
    /\ last.id = "u1"
    /\ nextUuid > 0
    /\ Len(Sends(trace)) = 1
    /\ trace[1].id = "u1"

\* C8: dispatch invokes exactly the listeners registered under the event's
\* type, in subscription order, then the wildcard listeners, in subscription
\* order, and nobody else.
C8_DispatchFanOut ==
    [][\A i \in 1..Len(socks), t \in InboundTypes, d \in Deltas :
          WsMessage(i, t, d)
          => CallsOf(trace', t) = DispatchOrder(eventHandlers, t)]_vars

\* C9: a link-level error before the link opens rejects the pending
\* connect(), leaves the link neither CONNECTING nor OPEN, and opens no
\* further link.
C9_HandshakeFailureRejects ==
    [][\A i \in 1..Len(socks) :
          (WsError(i) /\ socks[i].rs = "CONNECTING")
          => /\ socks'[i].promise = "rejected"
             /\ socks'[i].rs \notin {"CONNECTING", "OPEN"}
             /\ Len(socks') = Len(socks)]_vars

\* C10: right after the open handler of a link, the link is OPEN, capture
\* start was invoked and connect() was resolved after it, in that one
\* handler; capture runs whenever a context and a stream were provided.
C10_CaptureStartsBeforeResolve ==
    last.op = "open"
    => /\ socks[last.i].rs = "OPEN"
       /\ socks[last.i].promise = "resolved"
       /\ Pos(trace, "startAudioCaptureSync") > 0
       /\ Pos(trace, "startAudioCaptureSync") < Pos(trace, "resolve")
       /\ (audioContext = "live" /\ mediaStream = "live")
             => audioProcessor = "live"

C10_Witness ==
    /\ last.op = "open"
    /\ audioProcessor = "live"
    /\ socks[last.i].promise = "resolved"

Emits(tr) ==
    LET e == SelectSeq(tr, LAMBDA x : x.k = "emit")
    IN [k \in 1..Len(e) |-> e[k].t]

QueueIds(q) == {q[k].id : k \in 1..Len(q)}

\* C11: right after close handling, remote or local, no processing node,
\* input stream or audio context is held, the playback queue is empty, the
\* playing flag is false and the registry has no entries; the cleanup is the
\* first thing the handler does, before the synthetic close is dispatched.
C11_CleanupBeforeCloseEvent ==
    last.op \in {"close", "closeCall"}
    => /\ audioProcessor = "null"
       /\ mediaStream = "null"
       /\ audioContext = "null"
       /\ playing = {}
       /\ audioQueue = <<>>
       /\ ~isPlaying
       /\ \A l \in Labels : eventHandlers[l] = <<>>
       /\ Pos(trace, "cleanup") = 1
       /\ last.op = "close" => Pos(trace, "emit") > Pos(trace, "cleanup")

\* the peer closed the link while a chunk was playing and another waited
C11_Witness ==
    /\ last.op = "close"
    /\ orphaned # {}
    /\ lost # {}
    /\ Emits(trace) = <<"close">>

\* C12: every parsed inbound message is dispatched exactly once, whatever its
\* type, inside its own handler (so in the order of receipt).
C12_EveryMessageDispatchedOnce ==
    [][\A i \in 1..Len(socks), t \in InboundTypes, d \in Deltas :
          WsMessage(i, t, d) => Emits(trace') = <<t>>]_vars

\* an audio delta was both played and handed to a listener
C12_Witness ==
    /\ last.op = "message"
    /\ last.t = AudioDelta
    /\ Pos(trace, "play") > 0
    /\ Pos(trace, "call") > Pos(trace, "emit")

\* C13 as stated: every inbound audio-delta event adds one chunk to the
\* playback queue; an event of another type leaves the queue alone.
C13_EveryAudioDeltaQueued ==
    [][\A i \in 1..Len(socks), t \in InboundTypes, d \in Deltas :
          WsMessage(i, t, d)
          => IF t = AudioDelta
             THEN nextChunk' = nextChunk + 1
             ELSE UNCHANGED <<audioQueue, nextChunk>>]_vars

\* C13 (amended): an inbound audio-delta event with a non-empty delta adds
\* that delta once, at the tail of the queue (from where it is taken at once
\* when nothing is playing), and is dispatched as well; an audio delta whose
\* delta is empty and an event of any other type leave the queue alone.
C13_NonEmptyAudioDeltaQueuedOnce ==
    [][\A i \in 1..Len(socks), t \in InboundTypes, d \in Deltas :
          WsMessage(i, t, d)
          => IF t = AudioDelta /\ d # "empty"
             THEN /\ nextChunk' = nextChunk + 1
                  /\ Emits(trace') = <<t>>
                  /\ Cardinality({k \in 1..Len(begun') :
                                     begun'[k] = nextChunk})
                     + Cardinality({k \in 1..Len(audioQueue') :
                                       audioQueue'[k].id = nextChunk})
                     + (IF nextChunk \in lost' THEN 1 ELSE 0) = 1
                  /\ isPlaying
                     => audioQueue' = Append(audioQueue,
                                        [id |-> nextChunk, ok |-> d = "ok"])
             ELSE UNCHANGED <<audioQueue, nextChunk, begun, lost, isPlaying,
                              playing>>]_vars

\* an audio delta arrived during playback and waits at the tail
C13_Witness ==
    /\ last.op = "message"
    /\ last.t = AudioDelta
    /\ Len(audioQueue) > 0
    /\ audioQueue[Len(audioQueue)].id = nextChunk - 1
    /\ Emits(trace) = <<AudioDelta>>

\* C14: a payload that does not parse dispatches nothing, queues nothing,
\* leaves the links, the registry and the playback state as they were, and
\* the link stays OPEN for the next message.
C14_MalformedPayloadIgnored ==
    [][\A i \in 1..Len(socks) :
          WsMessageMalformed(i)
          => /\ Emits(trace') = <<>>
             /\ Pos(trace', "call") = 0
             /\ socks'[i].rs = "OPEN"
             /\ UNCHANGED <<socks, ws, eventHandlers, audioVars,
                            nextChunk>>]_vars

\* a bad payload arrived at a client with listeners and queued audio
C14_Witness ==
    /\ last.op = "message"
    /\ last.id = "malformed"
    /\ Registrations(eventHandlers) > 0
    /\ Len(audioQueue) > 0
    /\ isPlaying

\* C15: when a chunk fails to decode while playback looks for the next chunk,
\* the chunk is gone from the queue and either a later chunk has started at
\* once (flag set, that playback outstanding) or the queue is empty and the
\* flag is cleared.
C15_DecodeFailureAdvances ==
    [][(lost' # lost /\ last'.op \in {"message", "ended"})
          => /\ (lost' \ lost) \cap QueueIds(audioQueue') = {}
             /\ IF Len(begun') > Len(begun)
                THEN /\ isPlaying'
                     /\ begun'[Len(begun')] \in playing'
                     /\ \A c \in (lost' \ lost) : c < begun'[Len(begun')]
                     /\ \A c \in QueueIds(audioQueue') :
                           c > begun'[Len(begun')]
                ELSE /\ ~isPlaying'
                     /\ audioQueue' = <<>>]_vars

\* chunk 1 ended, chunk 2 failed to decode, chunk 3 started
C15_Witness ==
    /\ last.op = "ended"
    /\ begun = <<1, 3>>
    /\ lost = {2}
    /\ playing = {3}
    /\ isPlaying

\* C16: every capture tick counts one block; if the link is OPEN exactly one
\* input_audio_buffer.append goes out on it, otherwise nothing goes out and
\* nothing is kept.
C16_CaptureTick ==
    [][AudioProcess
          => /\ audioPacketCount' = audioPacketCount + 1
             /\ IF WsIsOpen
                THEN /\ Len(Sends(trace')) = 1
                     /\ Sends(trace')[1].t = "input_audio_buffer.append"
                     /\ Sends(trace')[1].n = ws
                ELSE Sends(trace') = <<>>
             /\ UNCHANGED <<socks, ws, audioVars>>]_vars

\* a block was captured while the current link was not OPEN
C16_Witness ==
    /\ last.op = "audioprocess"
    /\ ws # 0
    /\ socks[ws].rs # "OPEN"
    /\ Sends(trace) = <<>>
    /\ audioPacketCount > 0

\* C17: no listener appears twice under a label.
C17_ListenerOncePerLabel ==
    \A l \in Labels : Cardinality(Range(eventHandlers[l])) = Len(eventHandlers[l])

\* on() was just called with a listener already subscribed under the label
C17_Witness ==
    /\ last.op = "on"
    /\ trace[1].n = 1

\* C18: off(label, listener) leaves the label without that listener, keeps
\* the label's other listeners in their order, keeps every other label as it
\* was and raises nothing.
C18_UnsubscribeFrame ==
    [][\A l \in Labels, h \in Listeners :
          off(l, h)
          => /\ h \notin Range(eventHandlers'[l])
             /\ \A g \in Listeners \ {h} :
                   g \in Range(eventHandlers[l])
                   <=> g \in Range(eventHandlers'[l])
             /\ \A a, b \in 1..Len(eventHandlers'[l]) :
                   a < b
                   => \E x, y \in 1..Len(eventHandlers[l]) :
                         /\ x < y
                         /\ eventHandlers[l][x] = eventHandlers'[l][a]
                         /\ eventHandlers[l][y] = eventHandlers'[l][b]
             /\ \A l2 \in Labels \ {l} :
                   eventHandlers'[l2] = eventHandlers[l2]
             /\ Pos(trace', "uncaught") = 0]_vars

\* off() just removed a listener and other registrations are still there
C18_Witness ==
    /\ last.op = "off"
    /\ trace[1].n = 1
    /\ Registrations(eventHandlers) > 0

AllowedLifecycleEdges ==
    {<<"IDLE", "CONNECTING">>, <<"CONNECTING", "OPEN">>,
     <<"CONNECTING", "CLOSED">>, <<"CONNECTING", "ERROR">>,
     <<"OPEN", "CLOSED">>, <<"OPEN", "ERROR">>}

\* C19 as stated: the state the query reports starts at IDLE and only moves
\* IDLE to CONNECTING, CONNECTING to OPEN, CONNECTING or OPEN to CLOSED or
\* ERROR.
C19_LifecycleAsStated ==
    /\ readyState = "IDLE"
    /\ [][readyState' = readyState
          \/ <<readyState, readyState'>> \in AllowedLifecycleEdges]_vars

AllowedLinkEdges ==
    {<<"CONNECTING", "OPEN">>, <<"CONNECTING", "CLOSING">>,
     <<"CONNECTING", "CLOSED">>, <<"OPEN", "CLOSING">>,
     <<"OPEN", "CLOSED">>, <<"CLOSING", "CLOSED">>}

\* C19 (amended): every link starts CONNECTING and only moves CONNECTING to
\* OPEN, CONNECTING or OPEN to CLOSING or CLOSED, CLOSING to CLOSED; a CLOSED
\* link never changes again and a later connect makes a new link.  The state
\* query reports the state of the link the client holds and CLOSED when it
\* holds none (before the first connect, after close()); the readiness query
\* is true exactly when that link is OPEN.
C19_LinkLifecycle ==
    /\ readyState = "CLOSED"
    /\ ~isConnected
    /\ [][/\ \A i \in 1..Len(socks) :
                \/ socks'[i].rs = socks[i].rs
                \/ <<socks[i].rs, socks'[i].rs>> \in AllowedLinkEdges
          /\ \A i \in (Len(socks) + 1)..Len(socks') :
                socks'[i].rs \in {"CONNECTING", "NONE"}
          /\ Len(socks') >= Len(socks)
          /\ readyState' = (IF ws' = 0 THEN "CLOSED" ELSE socks'[ws'].rs)
          /\ isConnected' <=> (ws' # 0 /\ readyState' = "OPEN")]_vars

\* a second link is OPEN on a client whose first link is CLOSED
C19_Witness ==
    /\ Len(socks) = 2
    /\ socks[1].rs = "CLOSED"
    /\ socks[2].rs = "OPEN"
    /\ readyState = "OPEN"
    /\ isConnected

\* C20: the handler of a link-level error makes one dispatch of an error
\* event and nothing else: no cleanup, no close of the link, and this.ws, the
\* registry, the capture pipeline and the playback queue stay as they were.
C20_LinkErrorFrame ==
    [][\A i \in 1..Len(socks) :
          WsError(i)
          => /\ Emits(trace') = <<"error">>
             /\ Pos(trace', "cleanup") = 0
             /\ Pos(trace', "wsClose") = 0
             /\ UNCHANGED <<ws, eventHandlers, audioVars,
                            audioPacketCount>>]_vars

\* an OPEN link failed while capture ran, audio was queued and a listener
\* received the error event
C20_Witness ==
    /\ last.op = "error"
    /\ audioProcessor = "live"
    /\ Len(audioQueue) > 0
    /\ Pos(trace, "call") > 0
    /\ Registrations(eventHandlers) > 0

\* C21: close() called in any state runs the whole cleanup first, then, when
\* the client holds a link, calls close on it and forgets it; afterwards
\* isConnected is false and the send guard is false; nothing is raised,
\* with or without a link.
C21_CloseFromAnyState ==
    [][close
          => /\ audioProcessor' = "null"
             /\ mediaStream' = "null"
             /\ audioContext' = "null"
             /\ audioQueue' = <<>>
             /\ ~isPlaying'
             /\ \A l \in Labels : eventHandlers'[l] = <<>>
             /\ Pos(trace', "cleanup") = 1
             /\ IF ws # 0
                THEN /\ Pos(trace', "wsClose") = 2
                     /\ socks'[ws].rs \notin {"CONNECTING", "OPEN"}
                ELSE /\ Pos(trace', "wsClose") = 0
                     /\ socks' = socks
             /\ Pos(trace', "uncaught") = 0
             /\ ws' = 0
             /\ ~isConnected'
             /\ ~SendAllowed']_vars

\* close() ran on an OPEN link while a chunk played and listeners were
\* subscribed in an earlier step
C21_Witness ==
    /\ last.op = "closeCall"
    /\ last.i # 0
    /\ socks[last.i].rs = "CLOSING"
    /\ socks[last.i].est
    /\ orphaned # {}
    /\ ~isConnected

C23_WireTextRoundTrip ==
    last.op = "base64ToArrayBuffer" => trace[1].v = last.from

\* the single byte 255 went through the padded text "/w==" and back
C23_Witness ==
    /\ last.op = "base64ToArrayBuffer"
    /\ last.from = <<255>>
    /\ last.arg = <<"/", "w", B64Pad, B64Pad>>
    /\ trace[1].v = <<255>>

\* C24: for a sample x in [-1,1], the value decoded from its PCM16 encoding
\* differs from x by at most 1/32767.
C24_SampleRoundTripError ==
    (last.op = "pcm16ToFloat32" /\ last.from \in (-Den)..Den)
    => LET f == trace[1].v
           d == f.num * Den - last.from * f.den
           e == IF d < 0 THEN -d ELSE d
       IN /\ e <= Den
          /\ e * 32767 <= f.den * Den

\* a negative sample came back with a quantization error that is not zero
C24_Witness ==
    /\ last.op = "pcm16ToFloat32"
    /\ last.from \in (-Den)..(-1)
    /\ trace[1].v.num < 0
    /\ trace[1].v.num * Den # last.from * trace[1].v.den

RoundNearest(a, d) == (2 * a + d) \div (2 * d)

\* C25 as stated: the stored value is the clamped sample times 32768
\* (negative) or 32767 (other), rounded to the nearest integer.
C25_RoundsToNearest ==
    last.op = "convertFloat32ToPCM16"
    => LET c == IF last.arg > Den THEN Den
                ELSE IF last.arg < -Den THEN -Den ELSE last.arg
       IN AsInt16(trace[1].v)
          = RoundNearest(IF c < 0 THEN c * 32768 ELSE c * 32767, Den)

\* C25 (amended): the stored value is the clamped sample times 32768
\* (negative) or 32767 (other) with its fraction cut off, that is rounded
\* toward zero; it lies in [-32768, 32767] and nothing wraps around.
C25_TruncatesTowardZero ==
    last.op = "convertFloat32ToPCM16"
    => LET c == IF last.arg > Den THEN Den
                ELSE IF last.arg < -Den THEN -Den ELSE last.arg
           p == IF c < 0 THEN c * 32768 ELSE c * 32767
           v == AsInt16(trace[1].v)
       IN /\ v \in (-32768)..32767
          /\ IF p >= 0
             THEN v * Den <= p /\ p < (v + 1) * Den
             ELSE (v - 1) * Den < p /\ p <= v * Den

\* a sample above 1 was clamped and stored as 32767
C25_Witness ==
    /\ last.op = "convertFloat32ToPCM16"
    /\ last.arg > Den
    /\ AsInt16(trace[1].v) = 32767

\* C26: every message put on the link carries an identifier (sendEvent
\* generates one when the event has none; the capture pipeline's append
\* events have one too).
C26_EverySentMessageHasId ==
    \A k \in 1..Len(trace) :
       trace[k].k = "send" => trace[k].id \notin {NoId, ""}

\* C27: when the link opens and the context or the stream is missing, no
\* processing node is created (none exists, so no capture block is ever
\* handled), the link is OPEN, connect() is resolved, nothing is rejected
\* and the link is not closed.
C27_MissingAudioSkipsCapture ==
    [][\A i \in 1..Len(socks) :
          (WsOpen(i) /\ (audioContext = "null" \/ mediaStream = "null"))
          => /\ audioProcessor = "null"
             /\ audioProcessor' = "null"
             /\ ~ENABLED AudioProcess
             /\ socks'[i].rs = "OPEN"
             /\ socks'[i].promise = "resolved"
             /\ Pos(trace', "resolve") > 0
             /\ Pos(trace', "reject") = 0
             /\ Pos(trace', "wsClose") = 0
             /\ UNCHANGED <<ws, audioContext, mediaStream>>]_vars

\* a link opened on a client that holds a context (made by playback) but no
\* input stream
C27_Witness ==
    /\ last.op = "open"
    /\ audioContext = "live"
    /\ mediaStream = "null"
    /\ audioProcessor = "null"
    /\ socks[last.i].rs = "OPEN"
    /\ socks[last.i].promise = "resolved"

\* C28: the credential appears in the handshake's subprotocol, once per
\* link, and in nothing else the client does: no message sent by sendEvent
\* or by the capture pipeline contains it.
C28_CredentialOnlyInHandshake ==
    /\ \A k \in 1..Len(trace) :
          ApiKey \in {trace[k].l, trace[k].t, trace[k].id}
          => trace[k].k = "subprotocol"
    /\ Pos(trace, "newWebSocket") > 0
       => Cardinality({k \in 1..Len(trace) : trace[k].id = ApiKey}) = 1

\* a captured block went out on the second link of the client
C28_Witness ==
    /\ last.op = "audioprocess"
    /\ last.i = 2
    /\ Len(Sends(trace)) = 1

\* C29: an open callback that fires on a link after close() was called
\* during its connect changes nothing: capture is not started, the link is
\* not OPEN and connect() is not resolved.
C29_StaleOpenHasNoEffect ==
    [][\A i \in 1..Len(socks) :
          WsOpenAfterClose(i)
          => /\ socks'[i].promise # "resolved"
             /\ socks'[i].rs # "OPEN"
             /\ audioProcessor' = audioProcessor]_vars

\* C30: the playing flag is true exactly when some started playback has not
\* yet had its completion fire.
C30_FlagIffPlaybackOutstanding ==
    isPlaying <=> (playing \cup orphaned # {})

\* C31: once a link is finished (closed, or never created), the promise of
\* the connect() call that made it is settled, whoever is subscribed.
C31_ConnectSettles ==
    \A i \in 1..Len(socks) :
       socks[i].phase = "done" => socks[i].promise # "pending"

\* C32: a hook connect() made while an earlier connect() is in progress or
\* connected changes nothing, and a client is created only when no other
\* client of the hook has a link that is CONNECTING or OPEN (no disconnect
\* having cut a connect in between).
C32_ConcurrentConnectIsNoOp ==
    /\ [][(SessionConnect /\ (InProgress # {} \/ wsRef # 0))
             => UNCHANGED hookVars]_vars
    /\ [][\A k \in 1..Len(calls) :
             (MicAnswered(k, TRUE) /\ \A j \in 1..Len(calls) : ~calls[j].cut)
                => \A c \in 1..Len(clients) :
                      clients[c].rs \notin {"CONNECTING", "OPEN"}]_vars

\* C33: when the peer closes the OPEN link of the stored client while the
\* status is CONNECTED, the hook's handler is called with the close event and
\* the status becomes DISCONNECTED.
C33_RemoteCloseDisconnectsHook ==
    [][\A c \in 1..Len(clients) :
          (ClientClose(c) /\ clients[c].rs = "OPEN" /\ wsRef = c
              /\ status = "CONNECTED")
             => /\ status' = "DISCONNECTED"
                /\ \E k \in 1..Len(trace') :
                      /\ trace'[k].k = "call"
                      /\ trace'[k].t = "close"]_vars

\* C34: a hook connect() made when the link of the stored client has been
\* closed by the peer starts a new connection attempt.
C34_ReconnectAfterRemoteClose ==
    [][(SessionConnect /\ wsRef # 0 /\ clients[wsRef].rs = "CLOSED")
          => /\ Len(calls') = Len(calls) + 1
             /\ status' = "CONNECTING"]_vars

\* C35: when disconnect() was called during the latest connect() and nothing
\* else is in progress, the step that finishes that connect() leaves the
\* status DISCONNECTED, no client stored, no link open and no stream live.
C35_DisconnectDuringConnectWins ==
    [][\A c \in 1..Len(clients) :
          (/\ ClientOpen(c)
           /\ Awaiting(c) = {Len(calls)}
           /\ InProgress = {Len(calls)}
           /\ calls[Len(calls)].cut)
             => /\ status' = "DISCONNECTED"
                /\ wsRef' = 0
                /\ clients'[c].rs # "OPEN"
                /\ clients'[c].mic # "live"]_vars

\* C36: every session.created received on a client is answered, in the same
\* handler and after the event was delivered, by exactly one session.update
\* transmitted on the link of that same client.
C36_SessionUpdateOnSameLink ==
    [][\A c \in 1..Len(clients) :
          ClientMessage(c, SessionCreated)
             => /\ Len(Sends(trace')) = 1
                /\ Sends(trace')[1].t = "session.update"
                /\ Sends(trace')[1].n = c
                /\ Pos(trace', "call") < Pos(trace', "send")]_vars

\* C37: sendUserText raises "RealtimeSession not connected" and transmits
\* nothing when no client is stored or the stored client's link is not OPEN;
\* otherwise its effects are exactly a conversation.item.create followed by
\* a response.create, both transmitted on the stored client's link.
C37_SendUserTextGuarded ==
    [][sendUserText =>
          IF wsRef = 0 \/ clients[wsRef].rs # "OPEN"
          THEN /\ Sends(trace') = <<>>
               /\ Len(trace') = 1
               /\ trace'[1].k = "throw"
               /\ trace'[1].t = "RealtimeSession not connected"
          ELSE /\ Len(trace') = 2
               /\ Sends(trace') = trace'
               /\ trace'[1].t = "conversation.item.create"
               /\ trace'[2].t = "response.create"
               /\ trace'[1].n = wsRef
               /\ trace'[2].n = wsRef]_vars

C37_Witness ==
    /\ last.op = "sendUserText"
    /\ Len(Sends(trace)) = 2
    /\ \E c \in 1..Len(clients) : c # wsRef /\ clients[c].rs = "CLOSED"

TimesCalled(tr, h) ==
    Cardinality({k \in 1..Len(tr) : tr[k].k = "call" /\ tr[k].l = h})

\* C38: whatever the type of a dispatched event, the wildcard label itself
\* included, a listener registered under the wildcard label and not under the
\* event's own type is invoked exactly once.
C38_WildcardListenerOnce ==
    [][\A i \in 1..Len(socks), t \in InboundTypes \cup {Wildcard} :
          WsMessage(i, t, "empty")
          => \A h \in Listeners :
                (/\ h \in Range(Handlers(eventHandlers, Wildcard))
                 /\ t # Wildcard
                    => h \notin Range(Handlers(eventHandlers, t)))
                => TimesCalled(trace', h) = 1]_vars

Settled(c) == c \in Range(begun) \cup lost

\* C39: in an execution where no started playback is ever cut off, every
\* chunk in the queue eventually begins playback or is dropped by a decode
\* failure, and the queue is never non-empty without a playback outstanding.
C39_QueuedChunksProgress ==
    [](orphaned = {})
    => /\ \A c \in 1..MaxChunks :
             (c \in QueueIds(audioQueue)) ~> Settled(c)
       /\ [](audioQueue # <<>> => playing # {})

\* chunk 2 waited in the queue while chunk 1 played and then began
C39_Witness ==
    /\ last.op = "ended"
    /\ orphaned = {}
    /\ Len(begun) >= 2
    /\ playing = {begun[Len(begun)]}
    /\ audioQueue # <<>>

\* C40: stopAudioCapture() leaves the queue and the flag as they are, and
\* every chunk in the queue still eventually begins playback (or is dropped
\* by a decode failure).
C40_StopDoesNotStall ==
    /\ [][stopAudioCapture => UNCHANGED <<audioQueue, isPlaying>>]_vars
    /\ \A c \in 1..MaxChunks :
          (c \in QueueIds(audioQueue)) ~> Settled(c)

====
